---- MODULE Spec2Model ----
(***************************************************************************)
(* Model of the recipe checklist page (app.js): the catalog loader, the    *)
(* filter and render engine, the ownership store kept in localStorage and  *)
(* the event handlers that tie them together.                              *)
(*                                                                         *)
(* Strings are sequences of one-character strings, so that toLowerCase,    *)
(* trim, includes, JSON.stringify and JSON.parse are computed and not      *)
(* assumed.  A recipe on a card or in a filter result is a reference to a  *)
(* catalog object, modelled as its index in allRecipes.                    *)
(***************************************************************************)
EXTENDS Integers, Sequences, FiniteSets, TLC

\* ------------------------------------------------------------------ bounds
\* longest text typed into the search box
MaxTextLen == 1

\* ----------------------------------------------------------------- strings
\* characters the user can type
TextChars == {"A", " "}

RECURSIVE TextsUpTo(_)
TextsUpTo(n) ==
  IF n = 0 THEN {<<>>}
  ELSE LET shorter == TextsUpTo(n - 1)
       IN  shorter \cup {Append(t, c) : t \in shorter, c \in TextChars}

\* values of e.target.value
SearchTexts == TextsUpTo(MaxTextLen)

\* a property that the object does not have
Undefined == <<"undefined">>

\* String.prototype.toLowerCase, one character
LowerChar(c) ==
  CASE c = "A" -> "a"
    [] c = "B" -> "b"
    [] c = "C" -> "c"
    [] OTHER   -> c

\* String.prototype.toLowerCase
toLowerCase(s) == [i \in 1..Len(s) |-> LowerChar(s[i])]

\* String.prototype.trim: drops the white space at both ends
RECURSIVE TrimStart(_)
TrimStart(s) ==
  IF s # <<>> /\ Head(s) = " " THEN TrimStart(Tail(s)) ELSE s

RECURSIVE TrimEnd(_)
TrimEnd(s) ==
  IF s # <<>> /\ s[Len(s)] = " " THEN TrimEnd(SubSeq(s, 1, Len(s) - 1)) ELSE s

trim(s) == TrimEnd(TrimStart(s))

\* String.prototype.includes
includes(s, k) ==
  \E i \in 0..(Len(s) - Len(k)) : SubSeq(s, i + 1, i + Len(k)) = k

\* ------------------------------------------------------------------- ids
\* a recipe id is a number or a string; both are written with one digit
Digits == {"1", "2", "3"}
NumId(d) == [type |-> "number", v |-> d]
StrId(d) == [type |-> "string", v |-> d]

\* -------------------------------------------------------------------- JSON
Throw == [type |-> "throw"]
Null  == [type |-> "null"]
Arr(items) == [type |-> "array", items |-> items]

\* StringifyId with the quotes of a string left out, as String(id) writes it
StringifyIdUnquoted(id) == <<id.v>>

\* JSON.stringify of one id
StringifyId(id) ==
  IF id.type = "number" THEN <<id.v>> ELSE <<"\"", id.v, "\"">>

RECURSIVE JoinIds(_)
JoinIds(ids) ==
  IF ids = <<>> THEN <<>>
  ELSE IF Len(ids) = 1 THEN StringifyId(ids[1])
  ELSE StringifyId(ids[1]) \o <<",">> \o JoinIds(Tail(ids))

\* JSON.stringify of an array of ids
JSONstringify(ids) == <<"[">> \o JoinIds(ids) \o <<"]">>

\* the scalar that starts at position i of text t, with the position after it
ScalarAt(t, i) ==
  IF i <= Len(t) /\ t[i] \in Digits
    THEN [ok |-> TRUE, val |-> NumId(t[i]), next |-> i + 1]
  ELSE IF i + 2 <= Len(t) /\ t[i] = "\"" /\ t[i + 1] \in Digits /\ t[i + 2] = "\""
    THEN [ok |-> TRUE, val |-> StrId(t[i + 1]), next |-> i + 3]
  ELSE [ok |-> FALSE, val |-> NumId("1"), next |-> i]

\* the elements of an array, from position i on, after the elements in acc
RECURSIVE ElementsAt(_, _, _)
ElementsAt(t, i, acc) ==
  LET e == ScalarAt(t, i)
  IN  IF ~e.ok THEN Throw
      ELSE IF e.next = Len(t) /\ t[e.next] = "]" THEN Arr(Append(acc, e.val))
      ELSE IF e.next < Len(t) /\ t[e.next] = "," THEN ElementsAt(t, e.next + 1, Append(acc, e.val))
      ELSE Throw

\* JSON.parse: null, one scalar, or an array of scalars; a SyntaxError otherwise
JSONparse(t) ==
  IF t = <<"n", "u", "l", "l">> THEN Null
  ELSE IF t = <<"[", "]">> THEN Arr(<<>>)
  ELSE IF t # <<>> /\ t[1] = "[" THEN ElementsAt(t, 2, <<>>)
  ELSE LET e == ScalarAt(t, 1)
       IN  IF e.ok /\ e.next = Len(t) + 1 THEN e.val ELSE Throw

\* ----------------------------------------------------------- ownership set
\* a Set keeps its members in insertion order, each once
SetAdd(s, id) ==
  IF \E i \in 1..Len(s) : s[i] = id THEN s ELSE Append(s, id)

\* SetDelete that finds nothing to delete
SetDeleteNothing(s, id) == s

SetDelete(s, id) == SelectSeq(s, LAMBDA x : x # id)

SetHas(s, id) == \E i \in 1..Len(s) : s[i] = id

RECURSIVE SetFromSeq(_, _)
SetFromSeq(items, acc) ==
  IF items = <<>> THEN acc
  ELSE SetFromSeq(Tail(items), SetAdd(acc, Head(items)))

\* new Set(x): the members of an iterable, nothing for null, a TypeError for
\* a value that is not iterable
NewSet(x) ==
  CASE x.type = "null"   -> [ok |-> TRUE, set |-> <<>>]
    [] x.type = "array"  -> [ok |-> TRUE, set |-> SetFromSeq(x.items, <<>>)]
    [] x.type = "string" -> [ok |-> TRUE, set |-> <<StrId(x.v)>>]
    [] OTHER             -> [ok |-> FALSE, set |-> <<>>]

\* localStorage.getItem(STORAGE_KEY) when the key is not there
NoItem == <<"null-item">>

\* the initializer of ownedIds: ok is FALSE when it throws
LoadOwned(item) ==
  LET text   == IF item = NoItem \/ item = <<>> THEN <<"[", "]">> ELSE item
      parsed == JSONparse(text)
  IN  IF parsed.type = "throw" THEN [ok |-> FALSE, set |-> <<>>] ELSE NewSet(parsed)

\* the members of a Set, order forgotten
Members(s) == {s[i] : i \in 1..Len(s)}

\* ----------------------------------------------------------------- catalog
\* data-category of the filter buttons
Categories == {"all", "Dessert"}

Recipe(id, en, ko, cat, url) ==
  [id |-> id, name_en |-> en, name_ko |-> ko, category_en |-> cat, source_url |-> url]

Fish  == Recipe(NumId("1"), <<"A", "b">>, <<"c">>, "Food", <<"u">>)
Cake  == Recipe(NumId("2"), <<"b">>, <<"C", " ", "c">>, "Dessert", <<>>)
\* a record whose name_ko is absent
Salad == Recipe(NumId("1"), <<"a">>, Undefined, "Food", Undefined)

\* what recipes.json can hold when it parses: an array of records, or a value
\* that is not an array
Catalogs ==
  { Arr(<<>>), Arr(<<Fish, Cake>>), Arr(<<Salad, Cake>>), [type |-> "object", items |-> <<>>] }

\* what the storage key can hold before the page is first opened
StoredItems ==
  { NoItem, <<>>, <<"n", "u", "l", "l">>, <<"[", "\"", "3", "\"", ",", "1", ",", "1", "]">>,
    <<"[", "1", ",">>, <<"2">> }

\* ------------------------------------------------------------------- state
VARIABLES
  pc,               \* where the script is: unloaded, crashed, loading, ready, failed
  protocol,         \* window.location.protocol
  storage,          \* localStorage[STORAGE_KEY]
  allRecipes,       \* the loaded catalog
  currentCategory,
  searchText,
  ownedIds,         \* the Set, in insertion order
  grid,             \* the cards in recipeGrid
  errorMessage,     \* the message in recipeGrid when loading failed
  stats,            \* stats.textContent
  bound,            \* how many times bindEvents has run on this page
  lastEvent,        \* the handler that ran last
  uncaught,         \* the last handler ended in an uncaught exception
  active,           \* the filter buttons that carry the class "active"
  fetches,          \* how many times fetch has been called on this page
  opened,           \* the recipe the last handler was activated on and the url it gave to window.open
  repeated,         \* the last handler rendered the state the render before it had rendered
  saved,            \* saveOwned has written the stored entry
  prevToggle        \* the last ownership toggle on this page and what it started from

vars == <<pc, protocol, storage, allRecipes, currentCategory, searchText, ownedIds,
          grid, errorMessage, stats, bound, lastEvent, uncaught, active, fetches, opened,
          repeated, saved, prevToggle>>

\* stats.textContent: nothing, the two counts, or the load failure text
BlankStats == [text |-> "blank", visible |-> 0, owned |-> 0]
FailedStats == [text |-> "failed", visible |-> 0, owned |-> 0]
CountStats(v, o) == [text |-> "counts", visible |-> v, owned |-> o]

\* the last handler was no activation of a card; an activation records the
\* recipe of the card and the url given to window.open, Undefined for no call
NoOpen == [ref |-> 0, url |-> Undefined]

\* no ownership toggle yet.  A toggle records the id, the state of the checkbox,
\* the members of the Set and of the stored entry before it, and, when the
\* toggle before it was of the same id the other way (twice), the members
\* before that one
NoToggle ==
  [some |-> FALSE, id |-> NumId("1"), on |-> FALSE, owned |-> {}, stored |-> {},
   twice |-> FALSE, owned0 |-> {}, stored0 |-> {}]

\* ------------------------------------------------------------------ filter
\* NameIncludes without the toLowerCase of the name
NameIncludesCaseSensitive(name, keyword) ==
  IF name = Undefined THEN "throw"
  ELSE IF includes(name, keyword) THEN "yes" ELSE "no"

\* name.toLowerCase().includes(keyword): "throw" when name is undefined
NameIncludes(name, keyword) ==
  IF name = Undefined THEN "throw"
  ELSE IF includes(toLowerCase(name), keyword) THEN "yes" ELSE "no"

\* the callback of allRecipes.filter for one recipe: "yes", "no" or "throw"
Matches(recipe, cat, text) ==
  LET categoryMatch == cat = "all" \/ recipe.category_en = cat
      keyword       == toLowerCase(trim(text))
      textMatch     ==
        IF keyword = <<>> THEN "yes"
        ELSE IF recipe.name_ko = Undefined THEN "throw"
        ELSE IF NameIncludes(recipe.name_ko, keyword) = "yes" THEN "yes"
        ELSE NameIncludes(recipe.name_en, keyword)
  IN  IF textMatch = "throw" THEN "throw"
      ELSE IF categoryMatch /\ textMatch = "yes" THEN "yes" ELSE "no"

\* FilterRecipes with the result in the opposite order
FilterRecipesReversed(all, cat, text) ==
  IF all.type # "array" THEN [ok |-> FALSE, refs |-> <<>>]
  ELSE IF \E i \in 1..Len(all.items) : Matches(all.items[i], cat, text) = "throw"
    THEN [ok |-> FALSE, refs |-> <<>>]
  ELSE [ok |-> TRUE,
        refs |-> SelectSeq([i \in 1..Len(all.items) |-> Len(all.items) + 1 - i],
                           LAMBDA i : Matches(all.items[i], cat, text) = "yes")]

\* allRecipes.filter(...): the recipes kept, as references into the catalog,
\* in the order filter visits them; ok is FALSE when it throws
FilterRecipes(all, cat, text) ==
  IF all.type # "array" THEN [ok |-> FALSE, refs |-> <<>>]
  ELSE IF \E i \in 1..Len(all.items) : Matches(all.items[i], cat, text) = "throw"
    THEN [ok |-> FALSE, refs |-> <<>>]
  ELSE [ok |-> TRUE,
        refs |-> SelectSeq([i \in 1..Len(all.items) |-> i],
                           LAMBDA i : Matches(all.items[i], cat, text) = "yes")]

getFilteredRecipes == FilterRecipes(allRecipes, currentCategory, searchText)

\* renderStats with the size of the Set as the owned count
renderStatsSize(all, visibleRefs, owned) ==
  CountStats(Len(visibleRefs), Len(owned))

\* ------------------------------------------------------------------ render
\* the counts renderStats writes
renderStats(all, visibleRefs, owned) ==
  CountStats(Len(visibleRefs),
             Len(SelectSeq(visibleRefs, LAMBDA i : SetHas(owned, all.items[i].id))))

\* Card with the checkbox left unchecked
CardUnchecked(all, i, owned) ==
  LET recipe == all.items[i]
  IN  [ref     |-> i,
       nameKo  |-> IF recipe.name_ko = Undefined \/ recipe.name_ko = <<>>
                   THEN recipe.name_en ELSE recipe.name_ko,
       checked |-> FALSE]

\* the card built for one visible recipe
Card(all, i, owned) ==
  LET recipe == all.items[i]
  IN  [ref     |-> i,
       nameKo  |-> IF recipe.name_ko = Undefined \/ recipe.name_ko = <<>>
                   THEN recipe.name_en ELSE recipe.name_ko,
       checked |-> SetHas(owned, recipe.id)]

\* renderRecipes without the line that empties recipeGrid
renderRecipesAppend(all, cat, text, owned, oldGrid, oldError, oldStats) ==
  LET visible == FilterRecipes(all, cat, text)
  IN  IF ~visible.ok
        THEN [threw |-> TRUE, grid |-> oldGrid, error |-> oldError, stats |-> oldStats]
        ELSE [threw |-> FALSE,
              grid  |-> oldGrid \o [k \in 1..Len(visible.refs) |-> Card(all, visible.refs[k], owned)],
              error |-> oldError,
              stats |-> renderStats(all, visible.refs, owned)]

\* renderRecipes: the grid and the stats it leaves; when the filter throws,
\* nothing has been written yet
renderRecipes(all, cat, text, owned, oldGrid, oldError, oldStats) ==
  LET visible == FilterRecipes(all, cat, text)
  IN  IF ~visible.ok
        THEN [threw |-> TRUE, grid |-> oldGrid, error |-> oldError, stats |-> oldStats]
        ELSE [threw |-> FALSE,
              grid  |-> [k \in 1..Len(visible.refs) |-> Card(all, visible.refs[k], owned)],
              error |-> "",
              stats |-> renderStats(all, visible.refs, owned)]

\* saveOwned that gives the Set itself to JSON.stringify, which writes {}
saveOwnedNoSpread(owned) == <<"{", "}">>

\* saveOwned: the text written under the storage key
saveOwned(owned) == JSONstringify(owned)

\* ----------------------------------------------------------------- startup
Init ==
  /\ pc = "unloaded"
  /\ protocol = "http:"
  /\ storage \in StoredItems
  /\ allRecipes = Arr(<<>>)
  /\ currentCategory = "all"
  /\ searchText = <<>>
  /\ ownedIds = <<>>
  /\ grid = <<>>
  /\ errorMessage = ""
  /\ stats = BlankStats
  /\ bound = 0
  /\ lastEvent = "none"
  /\ uncaught = FALSE
  /\ active = {"all"}
  /\ fetches = 0
  /\ opened = NoOpen
  /\ repeated = FALSE
  /\ saved = FALSE
  /\ prevToggle = NoToggle

\* the catch block of init
ShowError(message) ==
  /\ pc' = "failed"
  /\ stats' = FailedStats
  /\ grid' = <<>>
  /\ errorMessage' = message

\* The page is opened, or opened again: the script runs from its first line
\* to the first await of init.  The initializer of ownedIds is outside any
\* try block, so when it throws the script stops there.
LoadPage ==
  \E p \in {"http:", "file:"} :
    LET loaded == LoadOwned(storage)
    IN  /\ protocol' = p
        /\ allRecipes' = Arr(<<>>)
        /\ currentCategory' = "all"
        /\ searchText' = <<>>
        /\ bound' = 0
        /\ lastEvent' = "load"
        /\ active' = {"all"}
        /\ opened' = NoOpen
        /\ prevToggle' = NoToggle
        /\ repeated' = FALSE
        /\ ownedIds' = loaded.set
        /\ uncaught' = ~loaded.ok
        /\ IF ~loaded.ok
             THEN /\ pc' = "crashed"
                  /\ stats' = BlankStats
                  /\ grid' = <<>>
                  /\ errorMessage' = ""
                  /\ fetches' = 0
           ELSE IF p = "file:"
             THEN /\ ShowError("serve-over-http")
                  /\ fetches' = 0
           ELSE /\ pc' = "loading"
                /\ stats' = BlankStats
                /\ grid' = <<>>
                /\ errorMessage' = ""
                /\ fetches' = 1
        /\ UNCHANGED <<storage, saved>>

\* the response is not ok, or its body is not JSON: loadRecipes throws
FetchFailed ==
  /\ pc = "loading"
  /\ \E o \in {"read-failed", "syntax-error"} : ShowError(o)
  /\ lastEvent' = "fetch"
  /\ UNCHANGED <<protocol, storage, allRecipes, currentCategory, searchText, ownedIds,
                 bound, uncaught, active, fetches, opened, repeated, saved, prevToggle>>

\* the body parses: loadRecipes returns, then bindEvents and renderRecipes run
FetchLoaded ==
  /\ pc = "loading"
  /\ \E c \in Catalogs :
       \E r \in {renderRecipes(c, currentCategory, searchText, ownedIds, grid, errorMessage, stats)} :
           /\ allRecipes' = c
           /\ bound' = bound + 1
           /\ IF r.threw
                THEN ShowError("type-error")
                ELSE /\ pc' = "ready"
                     /\ grid' = r.grid
                     /\ errorMessage' = r.error
                     /\ stats' = r.stats
  /\ lastEvent' = "fetch"
  /\ UNCHANGED <<protocol, storage, currentCategory, searchText, ownedIds,
                 uncaught, active, fetches, opened, repeated, saved, prevToggle>>

\* ---------------------------------------------------------------- handlers
\* the steps that call renderRecipes
Renders == {"fetch", "search", "category"}

\* onSearchInput with a call of saveOwned before the render
onSearchInputSaves ==
  /\ bound > 0
  /\ \E text \in SearchTexts :
       \E r \in {renderRecipes(allRecipes, currentCategory, text, ownedIds, grid, errorMessage, stats)} :
           /\ searchText' = text
           /\ repeated' = (lastEvent \in Renders /\ text = searchText)
           /\ grid' = r.grid
           /\ errorMessage' = r.error
           /\ stats' = r.stats
           /\ uncaught' = r.threw
  /\ lastEvent' = "search"
  /\ storage' = saveOwned(ownedIds)
  /\ opened' = NoOpen
  /\ UNCHANGED <<pc, protocol, allRecipes, currentCategory, ownedIds, bound,
                 active, fetches, saved, prevToggle>>

\* the input listener of searchInput
onSearchInput ==
  /\ bound > 0
  /\ \E text \in SearchTexts :
       \E r \in {renderRecipes(allRecipes, currentCategory, text, ownedIds, grid, errorMessage, stats)} :
           /\ searchText' = text
           /\ repeated' = (lastEvent \in Renders /\ text = searchText)
           /\ grid' = r.grid
           /\ errorMessage' = r.error
           /\ stats' = r.stats
           /\ uncaught' = r.threw
  /\ lastEvent' = "search"
  /\ opened' = NoOpen
  /\ UNCHANGED <<pc, protocol, storage, allRecipes, currentCategory, ownedIds, bound,
                 active, fetches, saved, prevToggle>>

\* ActiveAfterClick that marks the clicked button and unmarks none
ActiveAfterClickAdd(button) == active \cup {button}

\* the buttons left with the class "active" by the loop over the filter buttons
ActiveAfterClick(button) == {item \in Categories : item = button}

\* the click listener of categoryFilters, for a click on a filter button
onCategoryClick ==
  /\ bound > 0
  /\ \E button \in Categories :
       \E r \in {renderRecipes(allRecipes, button, searchText, ownedIds, grid, errorMessage, stats)} :
           /\ currentCategory' = button
           /\ repeated' = (lastEvent \in Renders /\ button = currentCategory)
           /\ active' = ActiveAfterClick(button)
           /\ grid' = r.grid
           /\ errorMessage' = r.error
           /\ stats' = r.stats
           /\ uncaught' = r.threw
  /\ lastEvent' = "category"
  /\ opened' = NoOpen
  /\ UNCHANGED <<pc, protocol, storage, allRecipes, searchText, ownedIds, bound,
                 fetches, saved, prevToggle>>

\* the same listener, for a click that is on no filter button: it returns
onCategoryMiss ==
  /\ bound > 0
  /\ lastEvent' = "category-miss"
  /\ uncaught' = FALSE
  /\ opened' = NoOpen
  /\ repeated' = FALSE
  /\ UNCHANGED <<pc, protocol, storage, allRecipes, currentCategory, searchText, ownedIds,
                 grid, errorMessage, stats, bound, active, fetches, saved, prevToggle>>

\* ToggleResult with the stats counted over the whole catalog
ToggleResultAll(recipe, checked, owned, oldStats) ==
  LET owned1 == IF checked THEN SetAdd(owned, recipe.id) ELSE SetDelete(owned, recipe.id)
  IN  [owned   |-> owned1,
       stored  |-> saveOwned(owned1),
       threw   |-> FALSE,
       stats   |-> renderStats(allRecipes, [i \in 1..Len(allRecipes.items) |-> i], owned1)]

\* what the change listener of a card's checkbox does to the Set, the storage
\* and the stats, once the click has set the checkbox to checked
ToggleResult(recipe, checked, owned, oldStats) ==
  LET owned1  == IF checked THEN SetAdd(owned, recipe.id) ELSE SetDelete(owned, recipe.id)
      visible == getFilteredRecipes
  IN  [owned   |-> owned1,
       stored  |-> saveOwned(owned1),
       threw   |-> ~visible.ok,
       stats   |-> IF visible.ok THEN renderStats(allRecipes, visible.refs, owned1) ELSE oldStats]

\* the change listener of the checkbox of card k
onOwnedToggle ==
  /\ \E k \in 1..Len(grid) :
       LET recipe  == allRecipes.items[grid[k].ref]
           checked == ~grid[k].checked
       IN  \E r \in {ToggleResult(recipe, checked, ownedIds, stats)} :
           /\ grid' = [grid EXCEPT ![k].checked = checked]
           /\ ownedIds' = r.owned
           /\ storage' = r.stored
           /\ stats' = r.stats
           /\ uncaught' = r.threw
           /\ prevToggle' =
                LET twice == prevToggle.some /\ prevToggle.id = recipe.id /\ prevToggle.on # checked
                IN  [some |-> TRUE, id |-> recipe.id, on |-> checked,
                     owned |-> Members(ownedIds),
                     stored |-> Members(LoadOwned(storage).set),
                     twice |-> twice,
                     owned0 |-> IF twice THEN prevToggle.owned ELSE {},
                     stored0 |-> IF twice THEN prevToggle.stored ELSE {}]
  /\ repeated' = FALSE
  /\ saved' = TRUE
  /\ lastEvent' = "toggle"
  /\ opened' = NoOpen
  /\ UNCHANGED <<pc, protocol, allRecipes, currentCategory, searchText, errorMessage,
                 bound, active, fetches>>

\* OpenTarget without the test of recipe.source_url
OpenTargetAlways(recipe) ==
  IF recipe.source_url = Undefined THEN <<"u", "n", "d", "e", "f", "i", "n", "e", "d">>
  ELSE recipe.source_url

\* the url the dblclick listener gives to window.open, Undefined when
\* recipe.source_url is falsy and it makes no call
OpenTarget(recipe) ==
  IF recipe.source_url # Undefined /\ recipe.source_url # <<>>
  THEN recipe.source_url ELSE Undefined

\* the dblclick listener of card k
onCardActivate ==
  /\ \E k \in 1..Len(grid) :
       LET recipe == allRecipes.items[grid[k].ref]
       IN  opened' = [ref |-> grid[k].ref, url |-> OpenTarget(recipe)]
  /\ lastEvent' = "activate"
  /\ uncaught' = FALSE
  /\ repeated' = FALSE
  /\ UNCHANGED <<pc, protocol, storage, allRecipes, currentCategory, searchText, ownedIds,
                 grid, errorMessage, stats, bound, active, fetches, saved, prevToggle>>

Next ==
  \/ LoadPage
  \/ FetchFailed
  \/ FetchLoaded
  \/ onSearchInput
  \/ onCategoryClick
  \/ onCategoryMiss
  \/ onOwnedToggle
  \/ onCardActivate

Spec == Init /\ [][Next]_vars

\* ================================================================== claims
\* what the stored entry decodes to at the next startup
StoredMembers == Members(LoadOwned(storage).set)

\* C1: loading the ownership set never fails the application: whatever the
\* stored entry holds, the script gets past the initializer of ownedIds, with
\* no exception, and goes on to load the catalog.
C1_LoadNeverFails ==
  lastEvent = "load" => (pc \in {"loading", "failed"} /\ ~uncaught)

\* C2: once an ownership toggle has run on the page, and through every search
\* and category event after it, the stored entry decodes, without error, to
\* exactly the members of the in-memory Set.
C2_StoredIsOwned ==
  prevToggle.some => (LoadOwned(storage).ok /\ StoredMembers = Members(ownedIds))

\* a toggle has been followed by a search; something is owned
C2_Witness ==
  prevToggle.some /\ lastEvent = "search" /\ ownedIds # <<>>

\* the recipes of the catalog, as references
Refs == 1..Len(allRecipes.items)

\* the references getFilteredRecipes returns
VisibleSet == {getFilteredRecipes.refs[k] : k \in 1..Len(getFilteredRecipes.refs)}

\* name lowercased contains k, for a name that is there
HasLower(name, k) == name # Undefined /\ includes(toLowerCase(name), k)

GridRefs == [k \in 1..Len(grid) |-> grid[k].ref]

\* C4: an ownership toggle leaves the filter state, the visible subset, the
\* cards shown and the visible count of the stats as they were.
C4_ToggleKeepsVisible ==
  [][lastEvent' = "toggle" =>
       /\ currentCategory' = currentCategory
       /\ searchText' = searchText
       /\ getFilteredRecipes' = getFilteredRecipes
       /\ GridRefs' = GridRefs
       /\ stats'.text = stats.text
       /\ stats'.visible = stats.visible]_vars

\* a toggle under a filter that shows one recipe of two raised the owned count
C4_Witness ==
  /\ lastEvent = "toggle"
  /\ Len(allRecipes.items) = 2
  /\ stats = CountStats(1, 1)

\* C5: after two toggles in a row of the same id, one on and one off, with
\* any search and category events between them, the Set and the stored entry
\* have the members they had before the first of the two.
C5_TwiceRestores ==
  prevToggle.twice =>
    (Members(ownedIds) = prevToggle.owned0 /\ StoredMembers = prevToggle.stored0)

\* an owned id was toggled off and on again, with another id owned throughout
C5_Witness ==
  /\ prevToggle.twice
  /\ prevToggle.on
  /\ Cardinality(prevToggle.owned0) = 2

\* C6: when the page is opened again after the Set was saved, the Set that is
\* loaded has exactly the members of the Set that was saved, each once.
C6_RoundTrip ==
  [][(lastEvent' = "load" /\ prevToggle.some) =>
       /\ pc' # "crashed"
       /\ Members(ownedIds') = Members(ownedIds)
       /\ Cardinality(Members(ownedIds')) = Len(ownedIds')]_vars

\* the page was opened again on a Set saved with id 2 added before id 1
C6_Witness ==
  /\ lastEvent = "load"
  /\ saved
  /\ ownedIds = <<NumId("2"), NumId("1")>>

\* C7: startup is all or nothing: the error display comes with no handler
\* bound and no card, handlers are bound only with the catalog shown, once,
\* and the first render is of category "all" and an empty search text.
C7_StartupAllOrNothing ==
  /\ pc = "failed" => (bound = 0 /\ grid = <<>>)
  /\ bound > 0 => (pc = "ready" /\ bound = 1)
  /\ (pc = "ready" /\ lastEvent = "fetch") => (currentCategory = "all" /\ searchText = <<>>)

\* C8: with a recipe whose name_ko is absent in the catalog, a search input
\* runs to completion and shows that recipe iff its category passes and the
\* keyword is empty or in its name_en.
C8_AbsentNameIsNoError ==
  (lastEvent = "search" /\ allRecipes.type = "array") =>
    /\ ~uncaught
    /\ \A i \in Refs :
         LET recipe == allRecipes.items[i]
             k      == toLowerCase(trim(searchText))
         IN  recipe.name_ko = Undefined =>
               ((\E c \in 1..Len(grid) : grid[c].ref = i) <=>
                  /\ currentCategory = "all" \/ recipe.category_en = currentCategory
                  /\ k = <<>> \/ HasLower(recipe.name_en, k))

\* refs are references into the catalog, each at most once, in catalog order
IsSubsequence(refs) ==
  /\ \A k \in 1..Len(refs) : refs[k] \in Refs
  /\ \A k \in 1..(Len(refs) - 1) : refs[k] < refs[k + 1]

\* C9: the cards shown, and the result of the filter whenever it returns,
\* are a subsequence of the catalog, and no handler changes the catalog once
\* it is loaded.
C9_VisibleIsSubsequence ==
  /\ [](IsSubsequence(GridRefs) /\ (getFilteredRecipes.ok => IsSubsequence(getFilteredRecipes.refs)))
  /\ [][lastEvent' \notin {"load", "fetch"} => allRecipes' = allRecipes]_vars

\* a category click left both recipes of the catalog shown under a search text
C9_Witness ==
  /\ lastEvent = "category"
  /\ searchText # <<>>
  /\ Len(grid) = 2

\* C10: a full render that follows a full render of the same catalog, filter
\* state and Set leaves the cards, the stats, the filter state, the Set and
\* the stored entry as they were.
C10_RenderIdempotent ==
  [][repeated' =>
       /\ grid' = grid
       /\ stats' = stats
       /\ errorMessage' = errorMessage
       /\ currentCategory' = currentCategory
       /\ searchText' = searchText
       /\ ownedIds' = ownedIds
       /\ storage' = storage]_vars

\* the second of two renders of the same state, with two cards, one checked
C10_Witness ==
  /\ repeated
  /\ Len(grid) = 2
  /\ stats = CountStats(2, 1)

\* C11: when the page is opened with the file: protocol, startup ends in the
\* error display with the message that tells to serve the page over HTTP,
\* without a call of fetch and with the catalog still empty.
C11_FileProtocolMessage ==
  (lastEvent = "load" /\ protocol = "file:") =>
    /\ pc = "failed"
    /\ errorMessage = "serve-over-http"
    /\ stats = FailedStats
    /\ fetches = 0
    /\ allRecipes = Arr(<<>>)

\* C12: after a click on a filter button exactly one button is marked active,
\* the one clicked, and currentCategory is its category; a click in the
\* container that is on no filter button changes neither of them, nor the
\* search text, the cards or the stats.
C12_OneActiveButton ==
  /\ [](lastEvent = "category" => (active = {currentCategory} /\ Cardinality(active) = 1))
  /\ [][lastEvent' = "category-miss" =>
          /\ currentCategory' = currentCategory
          /\ active' = active
          /\ searchText' = searchText
          /\ grid' = grid
          /\ stats' = stats]_vars

\* the Dessert button was clicked, then a click missed the buttons
C12_Witness ==
  /\ lastEvent = "category-miss"
  /\ currentCategory = "Dessert"
  /\ active = {"Dessert"}
  /\ Len(grid) = 1

\* C13: the dblclick listener calls window.open, with the recipe's
\* source_url, iff that source_url is there and not empty, and in both cases
\* leaves the catalog, the filter state, the Set, the stored entry, the cards
\* and the stats as they were.
C13_ActivateOpensOrNothing ==
  /\ [](lastEvent = "activate" =>
          LET url == allRecipes.items[opened.ref].source_url
          IN  /\ (opened.url # Undefined) <=> (url # Undefined /\ url # <<>>)
              /\ opened.url # Undefined => opened.url = url)
  /\ [][lastEvent' = "activate" =>
          /\ allRecipes' = allRecipes
          /\ currentCategory' = currentCategory
          /\ searchText' = searchText
          /\ ownedIds' = ownedIds
          /\ storage' = storage
          /\ grid' = grid
          /\ errorMessage' = errorMessage
          /\ stats' = stats]_vars

\* a card whose recipe has an empty source_url was activated, with something
\* owned and saved
C13_Witness ==
  /\ lastEvent = "activate"
  /\ allRecipes.items[opened.ref].source_url = <<>>
  /\ opened.url = Undefined
  /\ saved
  /\ ownedIds # <<>>

\* the number of cards shown whose checkbox is checked
CheckedCards == Cardinality({k \in 1..Len(grid) : grid[k].checked})

\* C14: on the ready page, after the first render and after every search,
\* category and toggle event, the stats show the number of recipes that the
\* present category and search text let through and the number of those whose
\* id is in the Set; the owned count is at most the visible count, which is at
\* most the size of the catalog; and both counts are those of the cards shown.
C14_StatsMatchFilter ==
  (pc = "ready" /\ lastEvent \in {"fetch", "search", "category", "toggle"}) =>
    /\ stats.text = "counts"
    /\ getFilteredRecipes.ok
    /\ stats.visible = Len(getFilteredRecipes.refs)
    /\ stats.owned = Cardinality({i \in VisibleSet : SetHas(ownedIds, allRecipes.items[i].id)})
    /\ 0 <= stats.owned
    /\ stats.owned <= stats.visible
    /\ stats.visible <= Len(allRecipes.items)
    /\ stats.visible = Len(grid)
    /\ stats.owned = CheckedCards

\* C15: the input listener and the click listener of the filter buttons leave
\* the Set and the stored entry as they were, and the only handler that
\* changes the stored entry is the change listener of a checkbox.
C15_OnlyToggleWrites ==
  [][/\ lastEvent' \in {"search", "category", "category-miss"} =>
          (ownedIds' = ownedIds /\ storage' = storage)
     /\ storage' # storage => lastEvent' = "toggle"]_vars

\* a category click after a search, on a page whose stored entry was never
\* written by a toggle and whose Set came from a stored entry with a stale id
C15_Witness ==
  /\ lastEvent = "category"
  /\ ~saved
  /\ searchText # <<>>
  /\ SetHas(ownedIds, StrId("3"))
  /\ storage # saveOwned(ownedIds)

\* no two recipes of the catalog have the same id
UniqueIds ==
  \A i, j \in Refs : allRecipes.items[i].id = allRecipes.items[j].id => i = j

\* C16: with unique ids in the catalog, the checkbox of every card shown is
\* checked iff the recipe's id is in the Set, also after toggles, which do
\* not build the cards again; and the last toggle put the id of its card in
\* the Set iff that id was not in it before.
C16_CheckboxIsMembership ==
  UniqueIds =>
    /\ \A k \in 1..Len(grid) :
         grid[k].checked <=> SetHas(ownedIds, allRecipes.items[grid[k].ref].id)
    /\ prevToggle.some =>
         /\ SetHas(ownedIds, prevToggle.id) <=> prevToggle.on
         /\ prevToggle.id \in prevToggle.owned <=> ~prevToggle.on

\* of two cards shown the second was just turned off while the first stays on
C16_Witness ==
  /\ lastEvent = "toggle"
  /\ Len(grid) = 2
  /\ grid[1].checked
  /\ ~grid[2].checked
  /\ prevToggle.id = allRecipes.items[grid[2].ref].id
  /\ ~prevToggle.on

\* the ids of the catalog
CatalogIds == {allRecipes.items[i].id : i \in Refs}

\* C17: the last toggle changed the membership of no id but its own, in the
\* Set and in the stored entry, ids that are in no recipe of the catalog
\* included; a Set with such ids loads and toggles without an error of its
\* own (a toggle ends in an exception only when the filter throws, whatever
\* the Set holds); and the owned count never counts them: it is at most the
\* visible count and, when the toggle completes, the number of visible
\* recipes whose id is in the Set.
C17_OtherIdsKept ==
  /\ prevToggle.some =>
       /\ Members(ownedIds) \ {prevToggle.id} = prevToggle.owned \ {prevToggle.id}
       /\ StoredMembers \ {prevToggle.id} = prevToggle.stored \ {prevToggle.id}
  /\ (lastEvent = "toggle" /\ uncaught) => ~getFilteredRecipes.ok
  /\ (lastEvent = "load" /\ storage = saveOwned(<<StrId("3"), NumId("1")>>)) => ~uncaught
  /\ stats.text = "counts" =>
       /\ stats.owned <= stats.visible
       /\ stats.visible <= Cardinality(CatalogIds)
  /\ (lastEvent = "toggle" /\ ~uncaught) =>
       stats = renderStats(allRecipes, getFilteredRecipes.refs, ownedIds)

\* a toggle turned the second card on while an id of no recipe is in the Set
\* and in the stored entry; both recipes count as owned, the stale id does not
C17_Witness ==
  /\ lastEvent = "toggle"
  /\ ~uncaught
  /\ StrId("3") \notin CatalogIds
  /\ SetHas(ownedIds, StrId("3"))
  /\ StrId("3") \in StoredMembers
  /\ StrId("3") \in prevToggle.stored
  /\ Cardinality(Members(ownedIds)) = 3
  /\ stats = CountStats(2, 2)
====
